---- MODULE Spec2Model ----
(***************************************************************************)
(* Fingering placement and layout (src/engraving/libmscore/fingering.cpp). *)
(*                                                                         *)
(* Lengths are integers.  One staff space is ctx.sp units; the sets below  *)
(* only hold values for which 0.8*sp, 1.5*sp, 0.5*headWidth and            *)
(* 0.25*height are whole numbers, so the integer arithmetic is exact.      *)
(* The y axis points down the page, as in the source: y = 0 is the top     *)
(* staff line, negative y is above the staff.                              *)
(***************************************************************************)
EXTENDS Integers, Sequences, FiniteSets, TLC

VARIABLES
    ctx,            \* the collaborators the annotation reads (note, chord, staff, ...)
    skyline,        \* the Staff Skyline of the system: [north, south]
    textStyleType,  \* TextStyleType of the annotation
    placement,      \* Pid::PLACEMENT
    autoplace,      \* autoplace()
    offsetChanged,  \* offsetChanged(): "NONE", "RELATIVE_OFFSET", "ABSOLUTE_OFFSET"
    offset,         \* the user offset, [x, y]
    minDist,        \* Pid::MIN_DISTANCE, in tenths of a staff space
    mdStyled,       \* isStyled(Pid::MIN_DISTANCE)
    xpos,           \* rxpos()
    ypos,           \* rypos()
    bbox,           \* bbox(), [x, y, w, h]
    fault,          \* TRUE once an absent collaborator was dereferenced and the run died
    pass,           \* what the last operation did (history variable)
    dragLog         \* what layout has done with the latest drag (history variable)

vars == <<ctx, skyline, textStyleType, placement, autoplace, offsetChanged, offset,
          minDist, mdStyled, xpos, ypos, bbox, fault, pass, dragLog>>

annotation == <<textStyleType, placement, autoplace, offsetChanged, offset,
                minDist, mdStyled, xpos, ypos, bbox>>

(***************************************************************************)
(* Bounds                                                                  *)
(***************************************************************************)
MaxStaves == 3
MaxNotes == 2
MaxRuns == 2        \* consecutive layout passes that are told apart

(***************************************************************************)
(* Small helpers                                                           *)
(***************************************************************************)
Min(a, b) == IF a < b THEN a ELSE b
Max(a, b) == IF a > b THEN a ELSE b
SetMax(S) == CHOOSE m \in S : \A e \in S : e <= m
Merge(a, b) == [k \in (DOMAIN a) \cup (DOMAIN b) |-> IF k \in DOMAIN b THEN b[k] ELSE a[k]]

Half(w) == w \div 2                 \* w * .5
Quarter(h) == h \div 4              \* h * .25
Mul08(sp) == (8 * sp) \div 10       \* 0.8 * sp
Mul15(sp) == (15 * sp) \div 10      \* 1.5 * sp

RectF == [x |-> 0, y |-> 0, w |-> 0, h |-> 0]
Bottom(r) == r.y + r.h
Translated(r, dx, dy) == [x |-> r.x + dx, y |-> r.y + dy, w |-> r.w, h |-> r.h]

TextStyleTypes == {"FINGERING", "RH_GUITAR_FINGERING", "LH_GUITAR_FINGERING",
                   "STRING_NUMBER", "DEFAULT"}
OffsetChanges == {"NONE", "RELATIVE_OFFSET", "ABSOLUTE_OFFSET"}
Placements == {"ABOVE", "BELOW"}
Collaborators == {"chord", "staff", "part", "measure", "segment", "system"}

(***************************************************************************)
(* Elevation profiles.  A SkylineLine is a sequence of spans [x, y, w]     *)
(* sorted by x.                                                            *)
(***************************************************************************)
MinimumY == -1000000

SkylineAdd(line, x, y, w) ==
    IF w <= 0 THEN line
    ELSE LET k == Cardinality({i \in 1..Len(line) : line[i].x <= x})
         IN SubSeq(line, 1, k) \o <<[x |-> x, y |-> y, w |-> w]>> \o SubSeq(line, k + 1, Len(line))

SkylineMinDistance(a, b) ==
    LET ds == {a[i].y - b[j].y : <<i, j>> \in
                 {p \in (1..Len(a)) \X (1..Len(b)) :
                     /\ a[p[1]].x < b[p[2]].x + b[p[2]].w
                     /\ b[p[2]].x < a[p[1]].x + a[p[1]].w}}
    IN IF ds = {} THEN MinimumY ELSE SetMax(ds)

(***************************************************************************)
(* Fingering::layoutType                                                   *)
(***************************************************************************)
layoutType(tid) ==
    IF tid \in {"FINGERING", "RH_GUITAR_FINGERING", "STRING_NUMBER"} THEN "CHORD" ELSE "NOTE"

(***************************************************************************)
(* Fingering::calculatePlacement.  Present(c, who) tells whether the       *)
(* collaborator is there; the values of an absent one are what a read      *)
(* through the null pointer happens to yield.                              *)
(***************************************************************************)
Present(c, who) == who \notin c.missing

PlacementDerefsNull(c) ==
    c.note /\ c.missing \cap {"chord", "staff", "part", "measure"} # {}

\* variant: multiple voices put the annotation on the far side of the stem
calculatePlacementStemSide(c) ==
    IF ~c.note THEN "ABOVE"
    ELSE LET nstaves == c.nstaves
             voices == c.hasVoices
             below == IF voices THEN c.up
                      ELSE (nstaves > 1) /\ (c.rstaff = nstaves - 1)
         IN IF below THEN "BELOW" ELSE "ABOVE"

\* variant: the staff count is not looked at
calculatePlacementLastStaff(c) ==
    IF ~c.note THEN "ABOVE"
    ELSE LET nstaves == c.nstaves
             voices == c.hasVoices
             below == IF voices THEN ~c.up
                      ELSE c.rstaff = nstaves - 1
         IN IF below THEN "BELOW" ELSE "ABOVE"

calculatePlacement(c) ==
    IF ~c.note THEN "ABOVE"
    ELSE LET nstaves == c.nstaves
             voices == c.hasVoices
             below == IF voices THEN ~c.up
                      ELSE (nstaves > 1) /\ (c.rstaff = nstaves - 1)
         IN IF below THEN "BELOW" ELSE "ABOVE"

(***************************************************************************)
(* Fingering::layout, piece by piece                                       *)
(***************************************************************************)
placeAbove == placement = "ABOVE"

\* variant: the test of showTabFingering is inverted
SuppressedWhenShown(c) ==
    c.explicitParent /\ Present(c, "staff") /\ c.isTabStaff /\ c.showTabFingering

\* line 110: the staff type hides fingering on this tablature staff
Suppressed(c) ==
    c.explicitParent /\ Present(c, "staff") /\ c.isTabStaff /\ ~c.showTabFingering

\* variant: the string number is not excepted
TightAnyStyle(c, tid) ==
    c.hasVoices /\ c.nnotes = 1 /\ ~c.beam

\* line 123
Tight(c, tid) ==
    c.hasVoices /\ c.nnotes = 1 /\ ~c.beam /\ tid # "STRING_NUMBER"

\* lines 146-149: horizontal centering on the note head
CenterX(c, x) == (IF c.mirror THEN x - c.noteIposX ELSE x) + Half(c.headWidth)

\* variant: the horizontal shift does not depend on the stem
TightDXAlways(c, above) ==
    IF above THEN 0 - Mul08(c.sp) ELSE Mul08(c.sp)

\* lines 152-155 and 188-191: the fixed offset of the tight path
TightDX(c, above) ==
    IF c.stem THEN (IF above THEN 0 - Mul08(c.sp) ELSE Mul08(c.sp)) ELSE 0
TightDY(c, above) == IF above THEN 0 - Mul15(c.sp) ELSE Mul15(c.sp)

\* line 142: minDistance().val() * sp
MinDistAbs(c, mdVal) == (mdVal * c.sp) \div 10

\* lines 157 and 193: the box in system coordinates,
\* bbox().translated(m->pos() + s->pos() + chord->pos() + n->pos() + pos());
\* (px, py) is pos(), the laid out position plus the user offset.
SystemBox(c, box, px, py) ==
    Translated(box, c.originX + c.noteX + px, c.originY + c.noteY + py)

\* lines 157-160 and 193-196: the query against the staff skyline
SkylineQuery(c, sky, above, box, px, py) ==
    LET r == SystemBox(c, box, px, py)
    IN IF above
       THEN SkylineMinDistance(SkylineAdd(<<>>, r.x, Bottom(r), r.w), sky.north)
       ELSE SkylineMinDistance(sky.south, SkylineAdd(<<>>, r.x, r.y, r.w))

\* variant: the push does not depend on the property being styled
SkylinePushAlways(above, d, styled, height) ==
    IF d > 0
    THEN (IF above THEN 0 - (d + Quarter(height)) ELSE d + Quarter(height))
    ELSE 0

\* lines 161-164 and 197-200
SkylinePush(above, d, styled, height) ==
    IF d > 0 /\ styled
    THEN (IF above THEN 0 - (d + Quarter(height)) ELSE d + Quarter(height))
    ELSE 0

\* lines 166-172
StructuralTop(c) ==
    IF c.up /\ c.beam /\ c.stem THEN c.stemTop ELSE Min(0, c.upNoteTop)

\* lines 202-208
StructuralBottom(c) ==
    IF ~c.up /\ c.beam /\ c.stem THEN c.stemBottom ELSE Max(c.staffHeight, c.downNoteBottom)

\* variant: the floor is the structural edge itself
FloorClampNoMinDistance(c, above, box, iy, yd, md) ==
    IF above
    THEN LET top == StructuralTop(c)
             diff == (Bottom(box) + iy + yd + c.noteY) - top
         IN IF diff > 0 THEN yd - diff ELSE yd
    ELSE LET bottom == StructuralBottom(c)
             diff == bottom - (box.y + iy + yd + c.noteY)
         IN IF diff > 0 THEN yd + diff ELSE yd

\* lines 173-177 and 209-213: iy is ipos().y(), md the absolute minimum distance
FloorClamp(c, above, box, iy, yd, md) ==
    IF above
    THEN LET top == StructuralTop(c) - md
             diff == (Bottom(box) + iy + yd + c.noteY) - top
         IN IF diff > 0 THEN yd - diff ELSE yd
    ELSE LET bottom == StructuralBottom(c) + md
             diff == bottom - (box.y + iy + yd + c.noteY)
         IN IF diff > 0 THEN yd + diff ELSE yd

\* lines 225-230: left-hand guitar fingering goes to the left of the note
LeftOfNote(c, x) ==
    IF c.shapeLeft - c.noteX > 0 THEN x - c.shapeLeft ELSE x - c.noteX

\* variant: the pass adds the final box to the staff skyline
SkylineAfterLayoutCommit(sky, above, r) ==
    [north |-> SkylineAdd(sky.north, r.x, r.y, r.w),
     south |-> SkylineAdd(sky.south, r.x, Bottom(r), r.w)]

\* The staff skyline after the pass: sk is a local SkylineLine (lines 158, 194);
\* ss->skyline() is only read.
SkylineAfterLayout(sky, above, r) == sky

\* variant: rebaseOffset runs in the autoplaced branch only
CallsRebaseOffsetAutoplaced(changed, auto, tight) == changed # "NONE" /\ auto /\ ~tight

\* variant: a tight pass rebases too
CallsRebaseOffsetTight(changed, auto, tight) == changed # "NONE"

\* lines 129 and 236: rebaseOffset runs after a drag, in the autoplaced branch
\* unless the pass is tight, and in the other branch always
CallsRebaseOffset(changed, auto, tight) == changed # "NONE" /\ (~auto \/ ~tight)

\* lines 178 and 214
CallsRebaseMinDistance(changed, full) == full /\ changed # "NONE"

\* The first source line of a pass that dereferences an absent collaborator,
\* 0 when there is none.
LayoutNullLine(c, tid, above, changed) ==
    IF c.missing \cap {"chord", "measure"} # {} THEN 122
    ELSE IF layoutType(tid) # "CHORD" THEN 0
    ELSE IF "segment" \in c.missing THEN 140
    ELSE IF "system" \in c.missing THEN 143
    ELSE IF Tight(c, tid) \/ above \/ "staff" \notin c.missing THEN 0
    ELSE IF ~(~c.up /\ c.beam /\ c.stem) THEN 207
    ELSE IF changed # "NONE" THEN 217
    ELSE 0

(***************************************************************************)
(* Collaborators outside fingering.cpp                                     *)
(***************************************************************************)
Offsets == {[x |-> 0, y |-> v] : v \in {-8, 0}}
MinDists == {5, 10}
DragDeltas == {8}

\* EngravingItem::rebaseOffset: may rewrite the user offset; what it returns
\* only feeds rebaseMinDistance.
RebaseOffsetOutcomes == [off : Offsets]

\* EngravingItem::rebaseMinDistance(md, yd, ...): may rewrite yd (passed by
\* reference) and make the minimum distance an explicit property.
RebaseMinDistanceOutcomes(yd) ==
    [styled : BOOLEAN, yd : {yd, 0} \cup {yd + k : k \in DragDeltas}]

(***************************************************************************)
(* The history variable                                                    *)
(***************************************************************************)
PassRecord(op, run, path, textLayout, queries, rebaseOffset, rebaseMinDistance, changed, auto, above, d) ==
    [op |-> op, run |-> run, path |-> path, autoplace |-> auto, textLayout |-> textLayout, queries |-> queries,
     rebaseOffset |-> rebaseOffset, rebaseMinDistance |-> rebaseMinDistance,
     changed |-> changed, above |-> above, d |-> d]

Op(op) == PassRecord(op, 0, "none", FALSE, 0, FALSE, FALSE, "NONE", TRUE, TRUE, 0)
NoPass == Op("none")

\* The latest drag: in how many passes Offset Rebase has run for it (counted up
\* to MaxRuns) and whether the pass that took it up was tight.
NoDrag == [rebases |-> 0, tight |-> FALSE]

DragLogAfter(log, rebased, path, changed) ==
    [rebases |-> IF rebased THEN Min(log.rebases + 1, MaxRuns) ELSE log.rebases,
     tight |-> log.tight \/ (path = "tight" /\ changed # "NONE")]

\* how many layout passes have run in a row with nothing in between, this one
\* included; counted up to MaxRuns
RunOf(last) == IF last.op = "layout" THEN Min(last.run + 1, MaxRuns) ELSE 1

\* variant: the flag stays as line 134 set it
AutoplaceAfterLayoutNotRestored(auto, was) == IF auto THEN FALSE ELSE was

\* lines 134 and 235: the autoplaced branch ends with setAutoplace(true), the
\* other branch does not touch the flag
AutoplaceAfterLayout(auto, was) == IF auto THEN TRUE ELSE was

(***************************************************************************)
(* Fingering::layout                                                       *)
(***************************************************************************)
Layout ==
    /\ ~fault
    /\ UNCHANGED <<ctx, textStyleType, placement>>
    /\ IF Suppressed(ctx)
       THEN /\ bbox' = RectF                                          \* lines 110-113
            /\ pass' = PassRecord("layout", RunOf(pass), "suppressed", FALSE, 0, FALSE, FALSE,
                                  offsetChanged, autoplace, placeAbove, 0)
            /\ UNCHANGED <<skyline, autoplace, offsetChanged, offset, minDist,
                           mdStyled, xpos, ypos, fault, dragLog>>
       ELSE LET changed == offsetChanged
                above == placeAbove
                auto == autoplace /\ ctx.note                         \* line 119
                tight == Tight(ctx, textStyleType)
                chordLayout == layoutType(textStyleType) = "CHORD"
                full == auto /\ chordLayout /\ ~tight
                null == IF auto THEN LayoutNullLine(ctx, textStyleType, above, changed) ELSE 0
                box == ctx.text.box                                   \* TextBase::layout()
                x0 == ctx.text.x
                \* lines 129-130 and 236-238
                callsRebaseOffset == CallsRebaseOffset(changed, auto, tight)
                callsRebaseMinDistance == CallsRebaseMinDistance(changed, full)
            IN \E rb \in (IF callsRebaseOffset THEN RebaseOffsetOutcomes
                          ELSE {[off |-> offset]}) :
               LET x1 == CenterX(ctx, x0)
                   md == MinDistAbs(ctx, minDist)
                   d == SkylineQuery(ctx, skyline, above, box, x1 + rb.off.x, 0 + rb.off.y)
                   yd0 == SkylinePush(above, d, mdStyled, box.h)
                   yd1 == FloorClamp(ctx, above, box, 0, yd0, md)
               IN \E rm \in (IF callsRebaseMinDistance THEN RebaseMinDistanceOutcomes(yd1)
                             ELSE {[styled |-> mdStyled, yd |-> yd1]}),
                     crash \in (IF null # 0 THEN BOOLEAN ELSE {FALSE}) :
                  LET path == IF crash THEN "fault"
                              ELSE IF ~auto THEN "base"
                              ELSE IF chordLayout THEN (IF tight THEN "tight" ELSE "skyline")
                              ELSE IF textStyleType = "LH_GUITAR_FINGERING" THEN "left"
                              ELSE "other"
                      r == SystemBox(ctx, box, x1 + rb.off.x, rm.yd + rb.off.y)
                  IN /\ bbox' = box
                     /\ fault' = crash
                     /\ xpos' = CASE path = "fault" -> (IF null > 149 THEN x1 ELSE x0)
                                  [] path = "base" -> x0
                                  [] path = "tight" -> x1 + TightDX(ctx, above)
                                  [] path = "skyline" -> x1
                                  [] path = "left" -> LeftOfNote(ctx, x0)
                                  [] path = "other" -> x0
                     /\ ypos' = CASE path = "tight" -> 0 + TightDY(ctx, above)   \* line 117, then 155/191
                                  [] path = "skyline" -> 0 + rm.yd              \* lines 184, 220
                                  [] OTHER -> 0
                     /\ autoplace' = IF crash THEN (IF null > 134 THEN FALSE ELSE autoplace)
                                     ELSE AutoplaceAfterLayout(auto, autoplace)
                     /\ offsetChanged' = IF crash THEN changed ELSE "NONE"      \* line 240
                     /\ offset' = rb.off
                     /\ mdStyled' = IF crash THEN mdStyled ELSE rm.styled
                     /\ minDist' = minDist
                     /\ skyline' = IF path = "skyline" THEN SkylineAfterLayout(skyline, above, r)
                                   ELSE skyline
                     /\ pass' = PassRecord("layout", RunOf(pass), path, TRUE,
                                           IF full /\ ~crash THEN 1 ELSE 0,
                                           callsRebaseOffset /\ (~crash \/ null > 130),
                                           callsRebaseMinDistance /\ ~crash,
                                           changed, autoplace, above,
                                           IF full /\ ~crash THEN d ELSE 0)
                     /\ dragLog' = DragLogAfter(dragLog,
                                                callsRebaseOffset /\ (~crash \/ null > 130),
                                                path, changed)

(***************************************************************************)
(* Fingering::propertyDefault(Pid::PLACEMENT), applied when the placement  *)
(* property is reset to its default                                        *)
(***************************************************************************)
ResetPlacement ==
    /\ ~fault
    /\ \E crash \in (IF PlacementDerefsNull(ctx) THEN BOOLEAN ELSE {FALSE}) :
          /\ fault' = crash
          /\ placement' = IF crash THEN placement ELSE calculatePlacement(ctx)
    /\ pass' = Op("calculatePlacement")
    /\ UNCHANGED <<ctx, skyline, textStyleType, autoplace, offsetChanged, offset,
                   minDist, mdStyled, xpos, ypos, bbox, dragLog>>

(***************************************************************************)
(* What the user does between layout passes                                *)
(***************************************************************************)
\* setPlacement (line 57 uses it in the constructor)
SetPlacement ==
    /\ ~fault
    /\ \E p \in Placements \ {placement} : placement' = p
    /\ pass' = NoPass
    /\ UNCHANGED <<ctx, skyline, textStyleType, autoplace, offsetChanged, offset,
                   minDist, mdStyled, xpos, ypos, bbox, fault, dragLog>>

\* setAutoplace (lines 134, 235 use it inside layout)
SetAutoplace ==
    /\ ~fault
    /\ autoplace' = ~autoplace
    /\ pass' = NoPass
    /\ UNCHANGED <<ctx, skyline, textStyleType, placement, offsetChanged, offset,
                   minDist, mdStyled, xpos, ypos, bbox, fault, dragLog>>

\* a drag or a cursor-key move of the annotation
Drag ==
    /\ ~fault
    /\ \E k \in OffsetChanges \ {"NONE"}, o \in Offsets \ {offset} :
          /\ offsetChanged' = k
          /\ offset' = o
    /\ pass' = NoPass
    /\ dragLog' = NoDrag
    /\ UNCHANGED <<ctx, skyline, textStyleType, placement, autoplace,
                   minDist, mdStyled, xpos, ypos, bbox, fault>>

\* the staff type of a tablature staff starts or stops showing fingering
SetShowTabFingering ==
    /\ ~fault
    /\ ctx.isTabStaff
    /\ ctx' = [ctx EXCEPT !.showTabFingering = ~@]
    /\ pass' = NoPass
    /\ UNCHANGED <<skyline, annotation, fault, dragLog>>

Next ==
    \/ Layout
    \/ ResetPlacement
    \/ SetPlacement
    \/ SetAutoplace
    \/ Drag
    \/ SetShowTabFingering

(***************************************************************************)
(* Initial states: the annotation as the constructor leaves it (lines      *)
(* 54-59), in one of a set of documents                                    *)
(***************************************************************************)
DefaultCtx ==
    [explicitParent |-> TRUE, note |-> TRUE, missing |-> {}, stem |-> TRUE,
     hasVoices |-> FALSE, up |-> TRUE, beam |-> FALSE, nnotes |-> 1, mirror |-> FALSE,
     isTabStaff |-> FALSE, showTabFingering |-> TRUE, nstaves |-> 1, rstaff |-> 0,
     sp |-> 20, headWidth |-> 12, noteX |-> 0, noteY |-> 30, noteIposX |-> 0,
     shapeLeft |-> 4, stemTop |-> -40, stemBottom |-> 100, upNoteTop |-> 20,
     downNoteBottom |-> 40, staffHeight |-> 80, originX |-> 100, originY |-> 200,
     text |-> [x |-> 3, y |-> 7, box |-> [x |-> -5, y |-> -12, w |-> 10, h |-> 16]]]

EmptySkyline == [north |-> <<>>, south |-> <<>>]
Skylines ==
    {EmptySkyline,
     [north |-> <<[x |-> 90, y |-> 190, w |-> 40]>>, south |-> <<[x |-> 90, y |-> 290, w |-> 40]>>],
     [north |-> <<[x |-> 300, y |-> 190, w |-> 40]>>, south |-> <<[x |-> 300, y |-> 290, w |-> 40]>>],
     [north |-> <<[x |-> 90, y |-> 260, w |-> 40]>>, south |-> <<[x |-> 90, y |-> 210, w |-> 40]>>]}

InitAnnotation ==
    /\ placement = "ABOVE"
    /\ autoplace = TRUE
    /\ offsetChanged = "NONE"
    /\ offset = [x |-> 0, y |-> 0]
    /\ mdStyled = TRUE
    /\ xpos = 0
    /\ ypos = 0
    /\ bbox = RectF
    /\ fault = FALSE
    /\ pass = NoPass
    /\ dragLog = NoDrag

\* documents that differ in structure: every way into and out of the tight
\* path for every text style; absent or present parent, note and tablature
\* staff; absent collaborators
StructDocs ==
    ({Merge(DefaultCtx, [hasVoices |-> v, beam |-> b, nnotes |-> k, stem |-> s]) :
         v \in BOOLEAN, b \in BOOLEAN, k \in 1..MaxNotes, s \in BOOLEAN}
     \X TextStyleTypes)
    \cup
    ({Merge(DefaultCtx, [explicitParent |-> p, note |-> n, isTabStaff |-> t,
                         showTabFingering |-> ~t, missing |-> m]) :
         p \in BOOLEAN, n \in BOOLEAN, t \in BOOLEAN, m \in {{}, {"staff"}}}
     \X {"FINGERING"})
    \cup
    ({Merge(DefaultCtx, [hasVoices |-> v, up |-> u, nstaves |-> n, rstaff |-> r]) :
         v \in BOOLEAN, u \in BOOLEAN,
         <<n, r>> \in {q \in (1..MaxStaves) \X (0..MaxStaves - 1) : q[2] < q[1]}}
     \X {"FINGERING"})
    \cup
    ({Merge(DefaultCtx, [missing |-> m, up |-> u, beam |-> b]) :
         m \in {{who} : who \in Collaborators} \cup {{"staff", "system"}},
         u \in BOOLEAN, b \in BOOLEAN}
     \X {"FINGERING", "LH_GUITAR_FINGERING"})

Init ==
    /\ \E doc \in StructDocs : ctx = doc[1] /\ textStyleType = doc[2]
    /\ skyline = EmptySkyline
    /\ minDist = 5
    /\ InitAnnotation

Spec == Init /\ [][Next]_vars

\* documents that differ in geometry, all collaborators present
NoteGeometries ==
    {[noteY |-> 30, upNoteTop |-> 20, downNoteBottom |-> 40, stemTop |-> -40, stemBottom |-> 100],
     [noteY |-> -40, upNoteTop |-> -50, downNoteBottom |-> -30, stemTop |-> -110, stemBottom |-> 30],
     [noteY |-> 110, upNoteTop |-> 100, downNoteBottom |-> 120, stemTop |-> 40, stemBottom |-> 180]}

Scales ==
    {[sp |-> 20, text |-> [x |-> 3, y |-> 7, box |-> [x |-> -5, y |-> -12, w |-> 10, h |-> 16]]],
     [sp |-> 10, text |-> [x |-> 0, y |-> 40, box |-> [x |-> -4, y |-> -8, w |-> 8, h |-> 12]]]}

GeomDocs ==
    ({Merge(Merge(Merge(DefaultCtx, g), sc), [up |-> u, beam |-> b, stem |-> s, nnotes |-> 2]) :
         g \in NoteGeometries, sc \in Scales, u \in BOOLEAN, b \in BOOLEAN, s \in BOOLEAN}
     \X {"FINGERING"} \X Skylines)
    \cup
    ({Merge(Merge(DefaultCtx, sc), [hasVoices |-> TRUE, stem |-> s, mirror |-> m,
                                    noteX |-> nx, noteIposX |-> nx, headWidth |-> w]) :
         sc \in Scales, s \in BOOLEAN, m \in BOOLEAN, nx \in {0, 12}, w \in {12, 16}}
     \X {"FINGERING", "LH_GUITAR_FINGERING"} \X {EmptySkyline})
    \cup
    ({Merge(DefaultCtx, [isTabStaff |-> TRUE, showTabFingering |-> FALSE])}
     \X {"STRING_NUMBER"} \X Skylines)

InitGeom ==
    /\ \E doc \in GeomDocs : ctx = doc[1] /\ textStyleType = doc[2] /\ skyline = doc[3]
    /\ minDist \in MinDists
    /\ InitAnnotation

SpecGeom == InitGeom /\ [][Next]_vars

(***************************************************************************)
(* Properties                                                              *)
(***************************************************************************)
\* the last operation was calculatePlacement, it read no absent collaborator
\* and its result is the placement
Placed == pass.op = "calculatePlacement" /\ ~fault /\ ctx.note /\ ctx.missing = {}

\* the last operation was a layout pass that ran to its end and nothing has
\* changed since
LaidOut == pass.op = "layout" /\ ~fault

\* C1 as stated: with multiple voices at the chord's tick, calculatePlacement
\* returns Below exactly when the stem is up and Above exactly when it is down.
C1_BelowWhenStemUp ==
    (Placed /\ ctx.hasVoices) =>
        /\ (placement = "BELOW") <=> ctx.up
        /\ (placement = "ABOVE") <=> ~ctx.up

\* C1 amended: with multiple voices at the chord's tick, calculatePlacement
\* returns Above exactly when the stem is up and Below exactly when it is down,
\* for every number of staves and every staff index.
C1_AboveWhenStemUp ==
    (Placed /\ ctx.hasVoices) =>
        /\ (placement = "ABOVE") <=> ctx.up
        /\ (placement = "BELOW") <=> ~ctx.up

C1_Witness ==
    /\ Placed /\ ctx.hasVoices /\ ctx.up /\ placement = "ABOVE"
    /\ ctx.nstaves > 1 /\ ctx.rstaff = ctx.nstaves - 1

\* C2: with a single voice, calculatePlacement returns Below if and only if the
\* part has more than one staff and the staff is the last one of the part, and
\* Above otherwise, whatever the stem direction.
C2_SingleVoicePlacement ==
    (Placed /\ ~ctx.hasVoices) =>
        IF ctx.nstaves > 1 /\ ctx.rstaff = ctx.nstaves - 1
        THEN placement = "BELOW"
        ELSE placement = "ABOVE"

C2_Witness ==
    Placed /\ ~ctx.hasVoices /\ ctx.nstaves > 1 /\ ctx.rstaff = ctx.nstaves - 1 /\ ctx.up
      /\ placement = "BELOW"

\* C3: layout and calculatePlacement never fault, whichever collaborators are
\* absent.
C3_NeverFaults == ~fault

\* the annotation's final box in system coordinates
FinalBox == SystemBox(ctx, bbox, xpos + offset.x, ypos + offset.y)

SkylineContains(sky, r) ==
    /\ \E i \in 1..Len(sky.north) :
          /\ sky.north[i].x <= r.x
          /\ r.x + r.w <= sky.north[i].x + sky.north[i].w
          /\ sky.north[i].y <= r.y
    /\ \E i \in 1..Len(sky.south) :
          /\ sky.south[i].x <= r.x
          /\ r.x + r.w <= sky.south[i].x + sky.south[i].w
          /\ sky.south[i].y >= Bottom(r)

C5_TightIff ==
    (LaidOut /\ pass.path # "suppressed" /\ pass.autoplace /\ ctx.note
       /\ textStyleType \in {"FINGERING", "RH_GUITAR_FINGERING", "STRING_NUMBER"}) =>
        IF ctx.hasVoices /\ ctx.nnotes = 1 /\ ~ctx.beam /\ textStyleType # "STRING_NUMBER"
        THEN pass.path = "tight" /\ pass.queries = 0
        ELSE pass.path = "skyline" /\ pass.queries = 1

C5_Witness ==
    /\ LaidOut /\ pass.path = "skyline" /\ textStyleType = "STRING_NUMBER"
    /\ ctx.hasVoices /\ ctx.nnotes = 1 /\ ~ctx.beam

\* the horizontal position after centering on the note head
Centered ==
    (IF ctx.mirror THEN ctx.text.x - ctx.noteIposX ELSE ctx.text.x) + (ctx.headWidth \div 2)

\* C6 as stated: a tight pass makes no skyline query and moves the annotation
\* half a staff space horizontally and 1.5 staff spaces vertically away from
\* the staff.
C6_TightHalfSpace ==
    (LaidOut /\ pass.path = "tight") =>
        /\ pass.queries = 0
        /\ xpos \in {Centered - (ctx.sp \div 2), Centered + (ctx.sp \div 2)}
        /\ ypos = IF pass.above THEN 0 - ((15 * ctx.sp) \div 10) ELSE (15 * ctx.sp) \div 10

\* C6 amended: a tight pass makes no skyline query; on top of the horizontal
\* centering it moves the annotation 0.8 staff spaces horizontally when the
\* chord has a stem (to the left when placed above, to the right when placed
\* below) and not at all when it has none, and 1.5 staff spaces vertically
\* away from the staff (negative y above, positive y below).
C6_TightOffset ==
    (LaidOut /\ pass.path = "tight") =>
        /\ pass.queries = 0
        /\ xpos = Centered + (IF ~ctx.stem THEN 0
                              ELSE IF pass.above THEN 0 - ((8 * ctx.sp) \div 10)
                              ELSE (8 * ctx.sp) \div 10)
        /\ ypos = IF pass.above THEN 0 - ((15 * ctx.sp) \div 10) ELSE (15 * ctx.sp) \div 10

C6_Witness ==
    LaidOut /\ pass.path = "tight" /\ ctx.stem /\ ~pass.above /\ ctx.mirror /\ ctx.sp = 10

\* the hard floor of the claims, written out
HardTop ==
    (IF ctx.up /\ ctx.beam /\ ctx.stem THEN ctx.stemTop
     ELSE IF ctx.upNoteTop < 0 THEN ctx.upNoteTop ELSE 0) - ((minDist * ctx.sp) \div 10)
HardBottom ==
    (IF ~ctx.up /\ ctx.beam /\ ctx.stem THEN ctx.stemBottom
     ELSE IF ctx.downNoteBottom > ctx.staffHeight THEN ctx.downNoteBottom ELSE ctx.staffHeight)
    + ((minDist * ctx.sp) \div 10)

\* C7: after a non-tight autoplaced pass with no pending drag the annotation
\* does not pass the hard floor: above, its bottom edge is at or above the
\* structural top minus the minimum distance; below, its top edge is at or
\* below the structural bottom plus the minimum distance.
C7_HardFloor ==
    (LaidOut /\ pass.path = "skyline" /\ pass.changed = "NONE") =>
        IF pass.above
        THEN bbox.y + bbox.h + ypos + ctx.noteY <= HardTop
        ELSE bbox.y + ypos + ctx.noteY >= HardBottom

C7_Witness ==
    /\ LaidOut /\ pass.path = "skyline" /\ pass.changed = "NONE" /\ ~pass.above
    /\ ~ctx.up /\ ctx.beam /\ ctx.stem
    /\ bbox.y + ypos + ctx.noteY = HardBottom

C9_SuppressedFrame ==
    [][(/\ pass'.op = "layout"
        /\ ctx.explicitParent /\ "staff" \notin ctx.missing
        /\ ctx.isTabStaff /\ ~ctx.showTabFingering) =>
           (/\ bbox' = RectF
            /\ ~pass'.textLayout /\ pass'.queries = 0
            /\ skyline' = skyline
            /\ xpos' = xpos /\ ypos' = ypos /\ offset' = offset
            /\ autoplace' = autoplace /\ offsetChanged' = offsetChanged)]_vars

C9_Witness ==
    /\ LaidOut /\ pass.path = "suppressed" /\ bbox = RectF
    /\ ypos # 0 /\ offsetChanged # "NONE"

\* C10 as stated: with autoplace off or no anchor note, layout stops after the
\* base text layout: no skyline query, no rebase, position = base text position
\* with y = 0, whatever offsetChanged is.
C10_NoRebase ==
    (LaidOut /\ pass.path # "suppressed" /\ ~(pass.autoplace /\ ctx.note)) =>
        /\ pass.path = "base" /\ pass.queries = 0
        /\ ~pass.rebaseOffset /\ ~pass.rebaseMinDistance
        /\ xpos = ctx.text.x /\ ypos = 0

\* C10 amended: with autoplace off or no anchor note, layout makes no skyline
\* query or update and no collision avoidance, and leaves the position at the
\* base text position with y = 0; it calls rebaseOffset(false) exactly when
\* offsetChanged is not None at the start of the pass, and ends with
\* offsetChanged = None.
C10_BasePath ==
    (LaidOut /\ pass.path # "suppressed" /\ ~(pass.autoplace /\ ctx.note)) =>
        /\ pass.path = "base" /\ pass.queries = 0
        /\ ~pass.rebaseMinDistance
        /\ pass.rebaseOffset <=> (pass.changed # "NONE")
        /\ xpos = ctx.text.x /\ ypos = 0
        /\ offsetChanged = "NONE"

C10_Witness ==
    /\ LaidOut /\ pass.path = "base" /\ pass.changed # "NONE" /\ pass.rebaseOffset
    /\ ~pass.autoplace /\ ctx.note

C12_RebasedAtMostOnce ==
    /\ (LaidOut /\ pass.path # "suppressed" /\ pass.autoplace /\ ctx.note) =>
          /\ pass.rebaseOffset <=>
                (/\ pass.changed # "NONE"
                 /\ ~(/\ ctx.hasVoices /\ ctx.nnotes = 1 /\ ~ctx.beam
                      /\ textStyleType # "STRING_NUMBER"))
          /\ pass.rebaseMinDistance <=> (pass.rebaseOffset /\ pass.path = "skyline")
    /\ (LaidOut /\ pass.path # "suppressed") => offsetChanged = "NONE"
    /\ dragLog.rebases <= 1
    /\ dragLog.tight => dragLog.rebases = 0

C12_Witness ==
    /\ LaidOut /\ dragLog.tight /\ dragLog.rebases = 0
    /\ pass.path = "base" /\ ~pass.rebaseOffset /\ ctx.note /\ offset.y # 0

====
